---------------------------- MODULE Spec2Model ----------------------------
(***************************************************************************)
(* A model of the release tracker of libgit2-experiments:                  *)
(*   src/track-release.c  the post-receive utility that maintains the      *)
(*                        "releases" table of releases.sqlite3             *)
(*   src/utils.c          the shared helpers (check_release_tag,           *)
(*                        check_release_branch, gmgittime)                 *)
(*                                                                         *)
(* C strings are modelled as sequences of one-character strings; a read    *)
(* past the last character yields the terminating NUL.                     *)
(***************************************************************************)
EXTENDS Integers, Sequences, FiniteSets, TLC

VARIABLES
    \* ---- the tag matchers applied to one tag name (SpecTag)
    tagNs,        \* the namespace part of the tag name under test
    tagPrefix,    \* its prefix part
    tagBody,      \* its remainder
    utilOut,      \* {} before, {what check_release_tag returned for it} after
    cbOut,        \* {} before, {what the matcher inside tag_callback decided} after
    \* ---- the release database and the wall clock
    db,           \* the committed rows of the "releases" table
    clock,        \* time(NULL), seconds since the epoch
    \* ---- one add_release call at a time (SpecStore)
    lastCall,     \* {} or {the arguments and the table before the call just made}
    \* ---- processes running add_release statement by statement (SpecTxn)
    conn,         \* per process: its place in add_release, its connection and
                  \* the statements the current call has issued so far
    \* ---- the repository and the runs of the utility on it (SpecRun)
    branches,     \* the local branches, in the order git_branch_next yields them
    config,       \* release-branch.<name>.track of each branch, "" when unset
    tags,         \* the tags, in the order git_tag_foreach visits them
    unreadable,   \* the commits git_commit_lookup fails on
    pc,           \* "idle", "scan" (inside the branch loop of main), "done"
                  \* (main returned 0) or "exited" (the process was ended by
                  \* exit(EXIT_FAILURE) or by a fault)
    nextBranch,   \* the index of the branch the branch loop takes next
    runs,         \* the number of runs started
    dbAtStart,    \* the table when the current run started
    log,          \* the add_release calls of the current run, in order, and
                  \* the tags it reported "failed to locate commit" for
    \* ---- the time conversions applied to two committer times (SpecTime)
    sigA,         \* a git_time: seconds since the epoch and offset in minutes
    sigB,         \* a git_time of the same instant, the offset chosen freely
    tmOut,        \* {} before, {the conversions of sigA and sigB} after
    \* ---- the build dispatch that follows the branch loop (SpecDispatch)
    hook,         \* whether the build hook is present and executable
    queue,        \* the pending releases still to be dispatched
    newAtStart,   \* the keys of the rows that were NEW when the dispatch began
    hookCalls,    \* per key: the exit statuses of the hook runs of this dispatch
    \* ---- the setup main does before the branch loop
    setup,        \* "ok", or what failed when the current run set itself up
    schema        \* whether the releases table exists in the database file

tagVars == <<tagNs, tagPrefix, tagBody, utilOut, cbOut>>

storeVars == <<db, clock, lastCall>>

txnVars == <<conn>>

repoVars == <<branches, config, tags, unreadable>>

runVars == <<pc, nextBranch, runs, dbAtStart, log>>

timeVars == <<sigA, sigB, tmOut>>

dispVars == <<hook, queue, newAtStart, hookCalls>>

setupVars == <<setup, schema>>

vars == <<tagVars, storeVars, txnVars, repoVars, runVars, timeVars, dispVars,
          setupVars>>

\* what the actions of each specification leave alone
notTag == <<storeVars, txnVars, repoVars, runVars, timeVars, dispVars,
             setupVars>>

notStore == <<tagVars, txnVars, repoVars, runVars, timeVars, dispVars,
               setupVars>>

notTxn == <<tagVars, lastCall, repoVars, runVars, timeVars, dispVars,
             setupVars>>

notRun == <<tagVars, lastCall, txnVars, repoVars, timeVars, dispVars,
             setupVars>>

notTime == <<tagVars, storeVars, txnVars, repoVars, runVars, dispVars,
              setupVars>>

notDisp == <<tagVars, clock, lastCall, txnVars, repoVars, timeVars,
              setupVars>>

-----------------------------------------------------------------------------
(* Characters and C string primitives                                      *)

NUL == "NUL"

Digit == {"0", "1", "2", "3", "4", "5", "6", "7", "8", "9"}

LowerSeq == <<"a", "b", "c", "d", "e", "f", "g", "h", "i", "j", "k", "l", "m",
              "n", "o", "p", "q", "r", "s", "t", "u", "v", "w", "x", "y", "z">>

UpperSeq == <<"A", "B", "C", "D", "E", "F", "G", "H", "I", "J", "K", "L", "M",
              "N", "O", "P", "Q", "R", "S", "T", "U", "V", "W", "X", "Y", "Z">>

Lower == {LowerSeq[i] : i \in DOMAIN LowerSeq}

Upper == {UpperSeq[i] : i \in DOMAIN UpperSeq}

isdigit(c) == c \in Digit

isalnum(c) == c \in Digit \cup Lower \cup Upper

tolower(c) ==
    IF c \in Upper
    THEN LowerSeq[CHOOSE i \in DOMAIN UpperSeq : UpperSeq[i] = c]
    ELSE c

\* s[i] of a C string, i counted from 1; the terminator beyond the last character
At(s, i) == IF i \in 1..Len(s) THEN s[i] ELSE NUL

\* tag_name += n
Drop(s, n) == SubSeq(s, n + 1, Len(s))

\* !strncmp(s, lit, strlen(lit))
StartsWith(s, lit) == Len(s) >= Len(lit) /\ SubSeq(s, 1, Len(lit)) = lit

\* n copies of c
RECURSIVE Repeat(_, _)
Repeat(c, n) == IF n = 0 THEN <<>> ELSE <<c>> \o Repeat(c, n - 1)

RefsTags == <<"r", "e", "f", "s", "/", "t", "a", "g", "s", "/">>

DebianSlash == <<"d", "e", "b", "i", "a", "n", "/">>

ReleaseSlash == <<"r", "e", "l", "e", "a", "s", "e", "/">>

-----------------------------------------------------------------------------
(* The tag matchers                                                        *)

NoMatch == [ok |-> FALSE, version |-> <<>>]

Match(v) == [ok |-> TRUE, version |-> v]

\* if(!strncmp(tag_name, "refs/tags/", 10)) tag_name += 10;
StripNamespace(tag_name) ==
    IF StartsWith(tag_name, RefsTags) THEN Drop(tag_name, 10) ELSE tag_name

\* the if / else if / else if chain that drops a recognised prefix
StripPrefix(tag_name) ==
    IF tolower(At(tag_name, 1)) = "v" \/ tolower(At(tag_name, 1)) = "r"
    THEN Drop(tag_name, 1)
    ELSE IF StartsWith(tag_name, DebianSlash)
    THEN Drop(tag_name, 7)
    ELSE IF StartsWith(tag_name, ReleaseSlash)
    THEN Drop(tag_name, 8)
    ELSE tag_name

\* while(*t && isdigit(*t)) t++;   the position t stops at, starting from i
RECURSIVE SkipDigits(_, _)
SkipDigits(s, i) ==
    IF At(s, i) # NUL /\ isdigit(At(s, i)) THEN SkipDigits(s, i + 1) ELSE i

\* the character test of the for(; *t; t++) loop
VersionChar(c) == isalnum(c) \/ c \in {"-", "_", ".", "~", "@"}

\* utils.c: the version-number test of check_release_tag, from if(!tag_name[0])
\* to the end of the for loop; NULL is FALSE
LooksLikeVersion(tag_name) ==
    LET t == SkipDigits(tag_name, 1) IN
    /\ At(tag_name, 1) # NUL
    /\ At(tag_name, t) = "."
    /\ isdigit(At(tag_name, t + 1))
    /\ \A i \in (t + 1)..Len(tag_name) : VersionChar(tag_name[i])

\* utils.c: check_release_tag
check_release_tag(tag_name) ==
    LET rest == StripPrefix(StripNamespace(tag_name)) IN
    IF ~LooksLikeVersion(rest) THEN NoMatch
    ELSE IF Len(rest) > 32 THEN NoMatch
    ELSE Match(rest)

\* track-release.c: the matcher written out inside tag_callback, between the
\* comparison with oidmatch and the commit lookup; return 0 is NoMatch
tag_callback_match(tag_name) ==
    LET n1 == IF StartsWith(tag_name, RefsTags) THEN Drop(tag_name, 10)
              ELSE tag_name
        n2 == IF tolower(At(n1, 1)) = "v" \/ tolower(At(n1, 1)) = "r"
              THEN Drop(n1, 1)
              ELSE IF StartsWith(n1, DebianSlash) THEN Drop(n1, 7)
              ELSE IF StartsWith(n1, ReleaseSlash) THEN Drop(n1, 8)
              ELSE n1
        t  == SkipDigits(n2, 1)
    IN  IF At(n2, 1) = NUL THEN NoMatch
        ELSE IF At(n2, t) # "." THEN NoMatch
        ELSE IF ~isdigit(At(n2, t + 1)) THEN NoMatch
        ELSE IF \E i \in (t + 1)..Len(n2) :
                   ~isalnum(n2[i]) /\ n2[i] \notin {"-", "_", ".", "~", "@"}
        THEN NoMatch
        ELSE Match(n2)

-----------------------------------------------------------------------------
(* Times: gmtime_r and strftime                                            *)

DigitSeq == <<"0", "1", "2", "3", "4", "5", "6", "7", "8", "9">>

\* gmtime_r: seconds since the epoch to broken-down UTC time
GmTime(t) ==
    LET days == t \div 86400
        rem  == t % 86400
        z    == days + 719468
        era  == z \div 146097
        doe  == z % 146097
        yoe  == (doe - (doe \div 1460) + (doe \div 36524) - (doe \div 146096)) \div 365
        doy  == doe - (365 * yoe + (yoe \div 4) - (yoe \div 100))
        mp   == (5 * doy + 2) \div 153
        d    == doy - ((153 * mp + 2) \div 5) + 1
        m    == IF mp < 10 THEN mp + 3 ELSE mp - 9
        y    == yoe + era * 400 + (IF m <= 2 THEN 1 ELSE 0)
    IN  [year |-> y, mon |-> m, mday |-> d,
         hour |-> rem \div 3600, min |-> (rem % 3600) \div 60, sec |-> rem % 60]

\* a two-digit field of strftime (%m %d %H %M %S %y)
Pad2(n) == <<DigitSeq[((n \div 10) % 10) + 1], DigitSeq[(n % 10) + 1]>>

\* %Y of a four-digit year
Pad4(n) == Pad2(n \div 100) \o Pad2(n % 100)

\* strftime(datebuf, sizeof(datebuf), "%Y-%m-%d %H:%M:%S", tm)
FormatDateTime(tm) ==
    Pad4(tm.year) \o <<"-">> \o Pad2(tm.mon) \o <<"-">> \o Pad2(tm.mday) \o <<" ">>
        \o Pad2(tm.hour) \o <<":">> \o Pad2(tm.min) \o <<":">> \o Pad2(tm.sec)

\* strftime(versbuf, sizeof(versbuf), "%y%m.%d%H.%M%S-git", &tm)
FormatTipVersion(tm) ==
    Pad2(tm.year % 100) \o Pad2(tm.mon) \o <<".">> \o Pad2(tm.mday) \o Pad2(tm.hour)
        \o <<".">> \o Pad2(tm.min) \o Pad2(tm.sec) \o <<"-", "g", "i", "t">>

\* git_gmtime: a git_time (seconds, offset in minutes) to a struct tm with the
\* hours, minutes and sign of the offset
git_gmtime(intime) ==
    LET offset == IF intime.offset < 0 THEN -intime.offset ELSE intime.offset IN
    [tm      |-> GmTime(intime.time + intime.offset * 60),
     hours   |-> offset \div 60,
     minutes |-> offset % 60,
     sign    |-> IF intime.offset < 0 THEN "-" ELSE "+"]

\* gmgittime of utils.c, called with tm, hours, minutes and signptr all set
gmgittime(time) ==
    LET t      == time.time + (time.offset * 60)
        offset == IF time.offset < 0 THEN -time.offset ELSE time.offset
    IN  [tm      |-> GmTime(t),
         hours   |-> offset \div 60,
         minutes |-> offset % 60,
         sign    |-> IF time.offset < 0 THEN "-" ELSE "+"]

-----------------------------------------------------------------------------
(* Object ids                                                              *)

GIT_OID_HEXSZ == 40

HexSeq == <<"0", "1", "2", "3", "4", "5", "6", "7", "8", "9",
            "a", "b", "c", "d", "e", "f">>

\* git_oid_fmt: the 20 bytes of an id as 40 lower-case hexadecimal characters
git_oid_fmt(oid) ==
    [i \in 1..GIT_OID_HEXSZ |->
        LET byte == oid[(i + 1) \div 2] IN
        IF i % 2 = 1 THEN HexSeq[(byte \div 16) + 1] ELSE HexSeq[(byte % 16) + 1]]

\* oidstr[8] = 0
ShortOid(oidstr) == SubSeq(oidstr, 1, 8)

-----------------------------------------------------------------------------
(* The releases table and the statements run against it                    *)

\* SameKey with the branch column compared against the version
SameKeyBranchAgainstVersion(row, version, branch_name) ==
    row.release = version /\ row.branch = version

\* PRIMARY KEY ("release", "branch"); the WHERE clauses of release_exists
\* select on the same two columns
SameKey(row, version, branch_name) ==
    row.release = version /\ row.branch = branch_name

\* SELECT "commit" FROM "releases" WHERE "release" = version AND "branch" = branch
SqlSelect(tbl, version, branch_name) ==
    {row \in tbl : SameKey(row, version, branch_name)}

\* a DELETE that names the release only
SqlDeleteWholeRelease(tbl, version, branch_name) ==
    {row \in tbl : row.release # version}

\* DELETE FROM "releases" WHERE "release" = version AND "branch" = branch
SqlDelete(tbl, version, branch_name) ==
    tbl \ SqlSelect(tbl, version, branch_name)

\* INSERT INTO "releases" (...) VALUES (...): the statement fails, and leaves
\* the table as it was, when the primary key is already taken
SqlInsert(tbl, row) ==
    IF \E old \in tbl : SameKey(old, row.release, row.branch)
    THEN [rc |-> "SQLITE_CONSTRAINT", tbl |-> tbl]
    ELSE [rc |-> "SQLITE_OK", tbl |-> tbl \cup {row}]

\* an INSERT statement that writes the row as already built
NewRowAsBuilt(version, branch_name, oidstr, datebuf, datebuf2) ==
    [release |-> version, branch |-> branch_name, commit |-> oidstr,
     when |-> datebuf, added |-> datebuf2, state |-> "SUCCESS", built |-> datebuf2]

\* the row of the INSERT statement of add_release
NewRow(version, branch_name, oidstr, datebuf, datebuf2) ==
    [release |-> version, branch |-> branch_name, commit |-> oidstr,
     when |-> datebuf, added |-> datebuf2, state |-> "NEW", built |-> "NULL"]

\* release_exists_cb taking any selected row for a row of the same commit
release_exists_cb_AnyRowMatches(result, row, oidstr) ==
    IF result # 0 THEN result ELSE 1

\* release_exists_cb, called once per selected row: the first row decides
release_exists_cb(result, row, oidstr) ==
    IF result # 0 THEN result
    ELSE IF row.commit = oidstr THEN 1
    ELSE 2

\* repo->result once sqlite3_exec has called release_exists_cb on every row
\* selected (in the order the rows are delivered)
RECURSIVE SelectResult(_, _, _)
SelectResult(rows, result, oidstr) ==
    IF rows = {} THEN result
    ELSE LET row == CHOOSE r \in rows : TRUE IN
         SelectResult(rows \ {row}, release_exists_cb(result, row, oidstr), oidstr)

\* release_exists that treats a row with the same commit as a stale one
release_exists_AlwaysReplaces(tbl, version, branch_name, oidstr) ==
    LET result == SelectResult(SqlSelect(tbl, version, branch_name), 0, oidstr) IN
    IF result = 0
    THEN [ret |-> result, tbl |-> tbl]
    ELSE [ret |-> 0, tbl |-> SqlDelete(tbl, version, branch_name)]

\* release_exists on a connection nobody else contends for: its return value
\* and the table it leaves
release_exists(tbl, version, branch_name, oidstr) ==
    LET result == SelectResult(SqlSelect(tbl, version, branch_name), 0, oidstr) IN
    IF result = 0 \/ result = 1
    THEN [ret |-> result, tbl |-> tbl]
    ELSE [ret |-> 0, tbl |-> SqlDelete(tbl, version, branch_name)]

\* add_release on a connection nobody else contends for, BEGIN to COMMIT or
\* ROLLBACK: the committed table it leaves, and whether sql_exec terminated
\* the process (after which the open transaction is rolled back)
add_release(tbl, branch_name, oid, version, when, now) ==
    LET datebuf  == FormatDateTime(when)
        datebuf2 == FormatDateTime(GmTime(now))
        oidstr   == git_oid_fmt(oid)
        exists   == release_exists(tbl, version, branch_name, oidstr)
        ins      == SqlInsert(exists.tbl,
                              NewRow(version, branch_name, oidstr, datebuf, datebuf2))
    IN  IF exists.ret # 0 THEN [tbl |-> tbl, exited |-> FALSE, did |-> "ROLLBACK"]
        ELSE IF ins.rc # "SQLITE_OK" THEN [tbl |-> tbl, exited |-> TRUE, did |-> "EXIT"]
        ELSE [tbl |-> ins.tbl, exited |-> FALSE, did |-> "COMMIT"]

-----------------------------------------------------------------------------
(* SpecStore: add_release called with arbitrary arguments, one call at a   *)
(* time, on a table that starts empty; between calls the clock advances    *)
(* and the builder that consumes the table marks rows as built             *)

MaxTicks == 1

\* the clock when the first run starts
Epoch0 == 1730000000

\* 20-byte object ids: OidA and OidC agree on their first four bytes
OidA == <<171, 205, 239, 16, 0, 0, 0, 0, 0, 0, 0, 0, 0, 0, 0, 0, 0, 0, 0, 1>>

OidB == <<18, 52, 86, 120, 0, 0, 0, 0, 0, 0, 0, 0, 0, 0, 0, 0, 0, 0, 0, 2>>

OidC == <<171, 205, 239, 16, 0, 0, 0, 0, 0, 0, 0, 0, 0, 0, 0, 0, 0, 0, 0, 3>>

V10 == <<"1", ".", "0">>

V20 == <<"2", ".", "0">>

Live == <<"l", "i", "v", "e">>

Master == <<"m", "a", "s", "t", "e", "r">>

\* the (release, branch) pairs add_release is called with
StoreKeys == {<<V10, Live>>, <<V10, Master>>, <<V20, Live>>}

StoreOids == {OidA, OidB}

\* the committer time of each commit: 2024-03-05 10:20:30 +0000 and a day later
StoreWhen(oid) == IF oid = OidA THEN GmTime(1709634030) ELSE GmTime(1709720430)

StoreIdle ==
    /\ db = {}
    /\ clock = 0
    /\ lastCall = {}

TxnIdle == conn = <<>>

RunIdle ==
    /\ branches = <<>>
    /\ config = <<>>
    /\ tags = <<>>
    /\ unreadable = {}
    /\ pc = "idle"
    /\ nextBranch = 0
    /\ runs = 0
    /\ dbAtStart = {}
    /\ log = <<>>

TagIdle ==
    /\ tagNs = <<>>
    /\ tagPrefix = <<>>
    /\ tagBody = <<>>
    /\ utilOut = {}
    /\ cbOut = {}

TimeIdle ==
    /\ sigA = [time |-> 0, offset |-> 0]
    /\ sigB = [time |-> 0, offset |-> 0]
    /\ tmOut = {}

SetupIdle ==
    /\ setup = "ok"
    /\ schema = FALSE

DispIdle ==
    /\ hook = FALSE
    /\ queue = {}
    /\ newAtStart = {}
    /\ hookCalls = <<>>

StoreInit ==
    /\ db = {}
    /\ clock = Epoch0
    /\ lastCall = {}
    /\ TagIdle
    /\ SetupIdle
    /\ TimeIdle
    /\ DispIdle
    /\ TxnIdle
    /\ RunIdle

\* one call of add_release
AddRelease(version, branch_name, oid) ==
    /\ \E r \in {add_release(db, branch_name, oid, version, StoreWhen(oid), clock)} :
           /\ db' = r.tbl
           /\ lastCall' = {[version |-> version, branch |-> branch_name,
                            oidstr |-> git_oid_fmt(oid), now |-> clock,
                            pre |-> db, did |-> r.did]}
    /\ UNCHANGED <<clock, notStore>>

\* a second of wall-clock time passes
Tick ==
    /\ clock < Epoch0 + MaxTicks
    /\ clock' = clock + 1
    /\ lastCall' = {}
    /\ UNCHANGED <<db, notStore>>

\* the builder records the outcome of building a NEW release
RecordOutcome(row, outcome) ==
    /\ row \in db
    /\ row.state = "NEW"
    /\ db' = (db \ {row}) \cup {[row EXCEPT !.state = outcome]}
    /\ lastCall' = {}
    /\ UNCHANGED <<clock, notStore>>

StoreNext ==
    \/ \E k \in StoreKeys, o \in StoreOids : AddRelease(k[1], k[2], o)
    \/ Tick
    \/ \E row \in db, outcome \in {"SUCCESS"} : RecordOutcome(row, outcome)

SpecStore == StoreInit /\ [][StoreNext]_vars

\* the rows of a table with a given primary key
RowsOf(tbl, version, branch_name) ==
    {row \in tbl : row.release = version /\ row.branch = branch_name}

\* C1: after any sequence of add_release calls from an empty table, no two
\* rows of the table have the same (release, branch).
C1_PrimaryKeyUnique ==
    \A r1, r2 \in db :
        (r1.release = r2.release /\ r1.branch = r2.branch) => r1 = r2

\* C1 witness: rows of two releases on one branch and of one release on two
\* branches are in the table, one of them written over an earlier commit.
C1_Witness ==
    /\ Cardinality(db) >= 3
    /\ \E c \in lastCall :
          /\ c.did = "COMMIT"
          /\ \E old \in RowsOf(c.pre, c.version, c.branch) : old.commit # c.oidstr

\* C2: when a row for (version, branch) exists with commit A, add_release of
\* the same pair with commit B # A leaves exactly one row for the pair, with
\* commit B, state NEW and the time of the call as added; none with A remains.
C2_ReplaceOnMismatch ==
    \A c \in lastCall :
        (\E old \in RowsOf(c.pre, c.version, c.branch) : old.commit # c.oidstr)
        => /\ Cardinality(RowsOf(db, c.version, c.branch)) = 1
           /\ \A row \in RowsOf(db, c.version, c.branch) :
                 /\ row.commit = c.oidstr
                 /\ row.state = "NEW"
                 /\ row.added = FormatDateTime(GmTime(c.now))

\* C2 witness: a row that had been built and was added earlier is replaced.
C2_Witness ==
    \E c \in lastCall :
        \E old \in RowsOf(c.pre, c.version, c.branch) :
            /\ old.commit # c.oidstr
            /\ old.state = "SUCCESS"
            /\ old.added # FormatDateTime(GmTime(c.now))
            /\ Cardinality(c.pre) >= 2

\* C13: when a row for (version, branch) exists with the commit id of the
\* call, add_release leaves the whole table as it was (that row's commit,
\* when, added, state and built, and every other row) and ends its
\* transaction with ROLLBACK.
C13_IdenticalNoOp ==
    \A c \in lastCall :
        (\E old \in RowsOf(c.pre, c.version, c.branch) : old.commit = c.oidstr)
        => /\ db = c.pre
           /\ c.did = "ROLLBACK"

\* C13 witness: the identical call comes a second after the row was added,
\* when the row has been built and another row is in the table.
C13_Witness ==
    \E c \in lastCall :
        \E old \in RowsOf(c.pre, c.version, c.branch) :
            /\ old.commit = c.oidstr
            /\ old.state = "SUCCESS"
            /\ old.added # FormatDateTime(GmTime(c.now))
            /\ Cardinality(c.pre) >= 2
            /\ db = c.pre

\* C16: every row an add_release call puts into the table has state NEW and
\* built NULL and has the key of the call; every row that was in the table
\* before the call is either still there exactly as it was, or it had the
\* key of the call with another commit and a fresh NEW row has taken its
\* place.
C16_InsertOnlyNew ==
    \A c \in lastCall :
        /\ \A row \in db \ c.pre :
              /\ row.state = "NEW"
              /\ row.built = "NULL"
              /\ row.release = c.version
              /\ row.branch = c.branch
              /\ row.commit = c.oidstr
        /\ \A old \in c.pre :
              \/ old \in db
              \/ /\ old.release = c.version
                 /\ old.branch = c.branch
                 /\ old.commit # c.oidstr
                 /\ \E row \in db \ c.pre :
                       row.release = old.release /\ row.branch = old.branch

\* C16 witness: a call replaces a built row while another built row stays.
C16_Witness ==
    \E c \in lastCall :
        /\ c.did = "COMMIT"
        /\ \E old \in c.pre \ db : old.state = "SUCCESS"
        /\ \E kept \in c.pre \cap db : kept.state = "SUCCESS"
        /\ \E row \in db \ c.pre : row.state = "NEW"

-----------------------------------------------------------------------------
(* SpecTxn: two runs of the utility on one database, each inside           *)
(* add_release, one SQL statement per step.  A process may stop at any     *)
(* point; a statement that does not return SQLITE_OK makes sql_exec (or    *)
(* release_exists) call exit(EXIT_FAILURE).  The database file is locked   *)
(* as SQLite locks it: a reader holds SHARED to the end of its             *)
(* transaction, a writer needs RESERVED (one holder at most) and, to       *)
(* commit, EXCLUSIVE (no other holder of any lock); no busy handler is     *)
(* installed, so a lock that cannot be had is SQLITE_BUSY at once.         *)

MaxCallsPerProc == 2

Procs == {"p1", "p2"}

TxnKeys == {<<V10, Live>>, <<V20, Live>>}

TxnOids == {OidA, OidB}

\* a process that is not inside add_release
Outside == [pc |-> "idle", version |-> <<>>, branch |-> <<>>, oid |-> <<>>, now |-> 0,
            intxn |-> FALSE, lock |-> "NONE", dirty |-> FALSE, view |-> {},
            calls |-> 0, at |-> "idle", issued |-> <<>>]

TxnInit ==
    /\ db = {}
    /\ clock = Epoch0
    /\ lastCall = {}
    /\ conn = [p \in Procs |-> Outside]
    /\ TagIdle
    /\ SetupIdle
    /\ TimeIdle
    /\ DispIdle
    /\ RunIdle

\* the table a connection reads: its own uncommitted changes if it has any
View(c) == IF c.dirty THEN c.view ELSE db

CanReserve(p) == \A q \in Procs \ {p} : conn[q].lock # "RESERVED"

CanExclusive(p) == \A q \in Procs \ {p} : conn[q].lock = "NONE"

\* exit(EXIT_FAILURE): the connection goes, and with it its locks and its
\* uncommitted changes
Exit(c) == [c EXCEPT !.pc = "exited", !.at = c.pc, !.intxn = FALSE, !.lock = "NONE",
                     !.dirty = FALSE, !.view = {}]

\* BEGIN without its effect: the statements that follow run in autocommit mode
SqlBeginIgnored(c) == c

\* sql_exec(repo, "BEGIN")
SqlBegin(c) == [c EXCEPT !.intxn = TRUE]

\* the effect of a statement that writes new_tbl: inside a transaction it
\* takes RESERVED and stays uncommitted; in autocommit mode it is committed
\* at once, which takes EXCLUSIVE
Written(p, new_tbl, next_pc, stmt) ==
    LET c == [conn[p] EXCEPT !.issued = Append(@, stmt)] IN
    IF ~CanReserve(p) \/ (~c.intxn /\ ~CanExclusive(p))
    THEN /\ conn' = [conn EXCEPT ![p] = Exit(c)]
         /\ UNCHANGED db
    ELSE IF c.intxn
    THEN /\ conn' = [conn EXCEPT ![p] = [c EXCEPT !.pc = next_pc, !.lock = "RESERVED",
                                                  !.dirty = TRUE, !.view = new_tbl]]
         /\ UNCHANGED db
    ELSE /\ conn' = [conn EXCEPT ![p] = [c EXCEPT !.pc = next_pc]]
         /\ db' = new_tbl

\* add_release is entered: the times and the id are formatted
Call(p, version, branch_name, oid) ==
    /\ conn[p].pc \in {"idle", "returned"}
    /\ conn[p].calls < MaxCallsPerProc
    /\ conn' = [conn EXCEPT ![p] = [@ EXCEPT !.pc = "begin", !.version = version,
                                             !.branch = branch_name, !.oid = oid,
                                             !.now = clock, !.calls = @ + 1,
                                             !.issued = <<>>]]
    /\ UNCHANGED <<db, clock, notTxn>>

\* sql_exec(repo, "BEGIN")
TxnBegin(p) ==
    /\ conn[p].pc = "begin"
    /\ conn' = [conn EXCEPT ![p] = [SqlBegin(@) EXCEPT !.pc = "select",
                                                        !.issued = Append(@, "BEGIN")]]
    /\ UNCHANGED <<db, clock, notTxn>>

\* add_release that returns at once when the row is already there
AfterSelectNoRollback(result) ==
    IF result = 1 THEN "returned" ELSE IF result = 0 THEN "insert" ELSE "delete"

\* the statement that follows the SELECT: ROLLBACK in add_release when
\* release_exists returns 1, the INSERT when it found no row, the DELETE of
\* release_exists when it found the row of another commit
AfterSelect(result) ==
    IF result = 1 THEN "rollback" ELSE IF result = 0 THEN "insert" ELSE "delete"

\* release_exists: the SELECT and its callback
TxnSelect(p) ==
    LET c      == conn[p]
        result == SelectResult(SqlSelect(View(c), c.version, c.branch), 0,
                               git_oid_fmt(c.oid))
    IN  /\ c.pc = "select"
        /\ conn' = [conn EXCEPT ![p] =
                        [c EXCEPT !.pc = AfterSelect(result),
                                  !.issued = Append(@, "SELECT"),
                                  !.lock = IF ~c.intxn THEN "NONE"
                                           ELSE IF @ = "NONE" THEN "SHARED" ELSE @]]
        /\ UNCHANGED <<db, clock, notTxn>>

\* release_exists: the DELETE of a row of another commit
TxnDelete(p) ==
    LET c == conn[p] IN
    /\ c.pc = "delete"
    /\ Written(p, SqlDelete(View(c), c.version, c.branch), "insert", "DELETE")
    /\ UNCHANGED <<clock, notTxn>>

\* add_release: the INSERT
TxnInsert(p) ==
    LET c   == conn[p]
        ins == SqlInsert(View(c), NewRow(c.version, c.branch, git_oid_fmt(c.oid),
                                         FormatDateTime(StoreWhen(c.oid)),
                                         FormatDateTime(GmTime(c.now))))
    IN  /\ c.pc = "insert"
        /\ IF ins.rc # "SQLITE_OK"
           THEN /\ conn' = [conn EXCEPT ![p] = Exit([c EXCEPT !.issued =
                                                              Append(@, "INSERT")])]
                /\ UNCHANGED db
           ELSE Written(p, ins.tbl, "commit", "INSERT")
        /\ UNCHANGED <<clock, notTxn>>

\* sql_exec(repo, "COMMIT")
TxnCommit(p) ==
    LET c == [conn[p] EXCEPT !.issued = Append(@, "COMMIT")] IN
    /\ c.pc = "commit"
    /\ IF ~c.intxn \/ (c.dirty /\ ~CanExclusive(p))
       THEN /\ conn' = [conn EXCEPT ![p] = Exit(c)]
            /\ UNCHANGED db
       ELSE /\ conn' = [conn EXCEPT ![p] = [c EXCEPT !.pc = "returned", !.intxn = FALSE,
                                                     !.lock = "NONE", !.dirty = FALSE,
                                                     !.view = {}]]
            /\ db' = View(c)
    /\ UNCHANGED <<clock, notTxn>>

\* sql_exec(repo, "ROLLBACK")
TxnRollback(p) ==
    LET c == [conn[p] EXCEPT !.issued = Append(@, "ROLLBACK")] IN
    /\ c.pc = "rollback"
    /\ conn' = [conn EXCEPT ![p] =
                    IF ~c.intxn THEN Exit(c)
                    ELSE [c EXCEPT !.pc = "returned", !.intxn = FALSE, !.lock = "NONE",
                                   !.dirty = FALSE, !.view = {}]]
    /\ UNCHANGED <<db, clock, notTxn>>

\* the process stops (is killed, loses power) inside add_release
Crash(p) ==
    /\ conn[p].pc \in {"begin", "select", "delete", "insert", "commit", "rollback"}
    /\ conn' = [conn EXCEPT ![p] = [Exit(@) EXCEPT !.pc = "crashed"]]
    /\ UNCHANGED <<db, clock, notTxn>>

TxnNext ==
    \E p \in Procs :
        \/ \E k \in TxnKeys, o \in TxnOids : Call(p, k[1], k[2], o)
        \/ TxnBegin(p)
        \/ TxnSelect(p)
        \/ TxnDelete(p)
        \/ TxnInsert(p)
        \/ TxnCommit(p)
        \/ TxnRollback(p)
        \/ Crash(p)

SpecTxn == TxnInit /\ [][TxnNext]_vars

\* C4: the committed table changes only in the step that commits an upsert,
\* and then to what the whole upsert makes of it; wherever a process stops
\* between BEGIN and COMMIT/ROLLBACK, a key that had one committed row still
\* has exactly one (never none, never two).
C4_UpsertAtomic ==
    [][ /\ db' # db =>
              \E p \in Procs :
                  /\ conn[p].pc = "commit"
                  /\ conn'[p].pc = "returned"
                  /\ db' = add_release(db, conn[p].branch, conn[p].oid, conn[p].version,
                                       StoreWhen(conn[p].oid), conn[p].now).tbl
        /\ \A k \in TxnKeys :
              Cardinality(RowsOf(db, k[1], k[2])) = 1
                  => Cardinality(RowsOf(db', k[1], k[2])) = 1 ]_vars

\* C4 witness: a process stopped after its DELETE and before its INSERT, and
\* the row of the other commit is still the one committed row of the key.
C4_Witness ==
    \E p \in Procs :
        /\ conn[p].pc = "crashed"
        /\ conn[p].at = "insert"
        /\ Cardinality(RowsOf(db, conn[p].version, conn[p].branch)) = 1
        /\ \A row \in RowsOf(db, conn[p].version, conn[p].branch) :
              row.commit # git_oid_fmt(conn[p].oid)

\* C5 (as claimed): a failure of the INSERT or of the COMMIT of a run that
\* lost the race for the database is never fatal to that run.
C5_BusyNeverFatal ==
    \A p \in Procs :
        conn[p].pc = "exited" => conn[p].at \notin {"insert", "commit"}

\* the number of places of seq that hold one of set
CountOf(seq, set) == Cardinality({i \in 1..Len(seq) : seq[i] \in set})

\* C26: every add_release call that has returned issued exactly one BEGIN,
\* as its first statement, and exactly one COMMIT or ROLLBACK, as its last:
\* COMMIT after an INSERT, ROLLBACK when the identical row was found; no
\* transaction is open on the connection then, and over the calls a process
\* makes one after the other BEGIN is never issued inside an open transaction.
C26_TransactionBracketing ==
    /\ [](\A p \in Procs :
             conn[p].pc = "returned" =>
                 LET st == conn[p].issued IN
                 /\ CountOf(st, {"BEGIN"}) = 1
                 /\ st[1] = "BEGIN"
                 /\ CountOf(st, {"COMMIT", "ROLLBACK"}) = 1
                 /\ st[Len(st)] \in {"COMMIT", "ROLLBACK"}
                 /\ (st[Len(st)] = "COMMIT") = (CountOf(st, {"INSERT"}) = 1)
                 /\ ~conn[p].intxn)
    /\ [][\A p \in Procs :
             (conn[p].pc = "begin" /\ conn'[p].pc = "select") => ~conn[p].intxn]_vars

\* C26 witness: a process is back from its second call, which replaced the
\* row its first call had inserted (BEGIN, SELECT, DELETE, INSERT, COMMIT),
\* while the other process is back from a call that found the identical row
\* and rolled back.
C26_Witness ==
    /\ conn["p1"].pc = "returned"
    /\ conn["p1"].calls = 2
    /\ conn["p1"].issued = <<"BEGIN", "SELECT", "DELETE", "INSERT", "COMMIT">>
    /\ conn["p2"].pc = "returned"
    /\ conn["p2"].issued = <<"BEGIN", "SELECT", "ROLLBACK">>

-----------------------------------------------------------------------------
(* SpecRun: runs of the utility, one after the other, on one repository.   *)
(* Between two runs time passes and the builder marks the NEW releases as  *)
(* built; the repository itself stays as it is.                            *)

MaxRuns == 2

\* the commit graph: 1 <- 2 <- 3
Commits == {1, 2, 3}

Parents(c) == IF c <= 1 THEN {} ELSE {c - 1}

RECURSIVE Ancestors(_)
Ancestors(c) == {c} \cup UNION {Ancestors(q) : q \in Parents(c)}

\* git_revwalk_push(tip) and git_revwalk_next under GIT_SORT_TOPOLOGICAL:
\* every commit reachable from the tip, no parent before a child of it
RECURSIVE Descending(_)
Descending(set) ==
    IF set = {} THEN <<>>
    ELSE LET top == CHOOSE c \in set : \A d \in set : d <= c IN
         <<top>> \o Descending(set \ {top})

\* git_revwalk_push of an id that names no commit fails and the walk is empty
RevWalk(tip) == IF tip \in Commits THEN Descending(Ancestors(tip)) ELSE <<>>

CommitOid(c) == IF c = 1 THEN OidA ELSE IF c = 2 THEN OidB ELSE OidC

\* git_commit_committer(commit)->when: seconds since the epoch and the
\* committer's offset from UTC in minutes
CommitWhen(c) ==
    IF c = 1 THEN [time |-> 1709634030, offset |-> 0]
    ELSE IF c = 2 THEN [time |-> 1709720430, offset |-> 60]
    ELSE [time |-> 1709806830, offset |-> -330]

\* git_reference_target(ref) == NULL: the branch is a symbolic reference
NullTarget == 0

\* git_commit_lookup(&commit, repo->repo, oid) == 0
git_commit_lookup(c) == c \notin unreadable

FooBar == <<"f", "o", "o", "/", "b", "a", "r">>

\* a branch name of 33 letters
Long33 == Repeat("a", 33)

TagV10 == RefsTags \o <<"v", "1", ".", "0">>

TagR10 == RefsTags \o <<"r", "1", ".", "0">>

Tag11 == RefsTags \o <<"1", ".", "1">>

TagJunk == RefsTags \o <<"j", "u", "n", "k">>

RunInit ==
    /\ \E n \in {Live, FooBar, Long33}, t \in {NullTarget, 2, 3},
          m1 \in {"tag", "tip", "", "weekly", "TIP"}, m2 \in {"tip", "tag"} :
          /\ branches = <<[name |-> n, tip |-> t], [name |-> Master, tip |-> 3]>>
          /\ config = [b \in {n, Master} |-> IF b = n THEN m1 ELSE m2]
    /\ \E a \in {1, 2, 3}, b \in {1, 2}, c \in {2, 3}, sorted \in BOOLEAN :
          tags = IF sorted
                 THEN <<[name |-> Tag11, target |-> c], [name |-> TagJunk, target |-> 3],
                        [name |-> TagR10, target |-> b], [name |-> TagV10, target |-> a]>>
                 ELSE <<[name |-> TagV10, target |-> a], [name |-> TagR10, target |-> b],
                        [name |-> Tag11, target |-> c], [name |-> TagJunk, target |-> 3]>>
    /\ unreadable \in {{}, {2}}
    /\ pc = "idle"
    /\ nextBranch = 0
    /\ runs = 0
    /\ dbAtStart = {}
    /\ log = <<>>
    /\ db = {}
    /\ clock = Epoch0
    /\ lastCall = {}
    /\ TagIdle
    /\ SetupIdle
    /\ TimeIdle
    /\ DispIdle
    /\ TxnIdle

\* add_release called from a callback: st is the table, the calls made so far
\* in this run and whether the process has exited
AddReleaseSt(st, branch_name, oid, version, when, now) ==
    IF st.exited THEN st
    ELSE LET r == add_release(st.db, branch_name, oid, version, when, now) IN
         [db     |-> r.tbl,
          log    |-> Append(st.log, [branch |-> branch_name, version |-> version,
                                     commit |-> git_oid_fmt(oid), did |-> r.did]),
          exited |-> r.exited]

\* strcat(versbuf, oidstr) with the first seven characters of the id only
TipVersionShort7(c) ==
    FormatTipVersion(git_gmtime(CommitWhen(c)).tm)
        \o SubSeq(git_oid_fmt(CommitOid(c)), 1, 7)

\* add_release_tip: the version strftime and strcat build in versbuf
TipVersion(c) ==
    FormatTipVersion(git_gmtime(CommitWhen(c)).tm) \o ShortOid(git_oid_fmt(CommitOid(c)))

\* add_release_tip
add_release_tip(st, branch_name, c, now) ==
    IF ~git_commit_lookup(c) THEN st
    ELSE AddReleaseSt(st, branch_name, CommitOid(c), TipVersion(c),
                      git_gmtime(CommitWhen(c)).tm, now)

\* tag_callback for one tag while repo->oidmatch is the id of commit c:
\* the state it leaves and its return value
tag_callback(st, tag, c, branch_name, now) ==
    LET m == tag_callback_match(tag.name) IN
    IF CommitOid(tag.target) # CommitOid(c) THEN [st |-> st, ret |-> 0]
    ELSE IF ~m.ok THEN [st |-> st, ret |-> 0]
    ELSE IF ~git_commit_lookup(tag.target)
    THEN [st  |-> [st EXCEPT !.log =
                      Append(@, [branch |-> branch_name, version |-> m.version,
                                 commit |-> git_oid_fmt(CommitOid(tag.target)),
                                 did |-> "LOOKUP_FAILED"])],
          ret |-> 1]
    ELSE [st  |-> AddReleaseSt(st, branch_name, CommitOid(tag.target), m.version,
                               git_gmtime(CommitWhen(tag.target)).tm, now),
          ret |-> 1]

\* git_tag_foreach(repo->repo, tag_callback, repo) from the i-th tag on: a
\* callback that returns non-zero ends the iteration
RECURSIVE git_tag_foreach(_, _, _, _, _)
git_tag_foreach(st, i, c, branch_name, now) ==
    IF i > Len(tags) \/ st.exited THEN st
    ELSE LET r == tag_callback(st, tags[i], c, branch_name, now) IN
         IF r.ret # 0 THEN r.st
         ELSE git_tag_foreach(r.st, i + 1, c, branch_name, now)

\* while(!git_revwalk_next(&oidbuf, walker)) over the commits of walk from
\* the i-th on
RECURSIVE WalkLoop(_, _, _, _, _)
WalkLoop(st, walk, i, branch_name, now) ==
    IF i > Len(walk) \/ st.exited THEN st
    ELSE WalkLoop(git_tag_foreach(st, 1, walk[i], branch_name, now),
                  walk, i + 1, branch_name, now)

\* the test of the branch name at the head of branch_callback
BranchNameOk(branch_name) ==
    \A i \in 1..Len(branch_name) :
        isalnum(branch_name[i]) \/ branch_name[i] = "-" \/ branch_name[i] = "_"

\* git_config_get_string(&cfgval, repo->cfg, "release-branch.<name>.track");
\* "" stands for the NULL of an unset key
ConfigTrack(branch_name) ==
    IF branch_name \in DOMAIN config THEN config[branch_name] ELSE ""

\* the read of address 0 stops the process
Fault == -1

\* git_oid_cpy(&oidbuf, oid) with oid == NULL reads 20 bytes at address 0,
\* which is undefined: the process is stopped by the fault, or the copy is
\* not made and oidbuf keeps what the stack held, the id of no commit
\* (NullTarget) or by chance that of a commit
NullCopy(ref) ==
    IF ref.tip = NullTarget THEN {Fault, NullTarget} \cup Commits ELSE {ref.tip}

\* the walk of the tag mode from what git_oid_cpy left in oidbuf
TagWalk(st, ref, now, oidbuf) ==
    IF oidbuf = Fault THEN [st EXCEPT !.exited = TRUE]
    ELSE WalkLoop(st, RevWalk(oidbuf), 1, ref.name, now)

\* branch_callback that takes every mode other than tag for tip
branch_callback_UnknownAsTip(st, ref, now, oidbuf) ==
    LET cfgval == ConfigTrack(ref.name) IN
    IF ~BranchNameOk(ref.name) THEN st
    ELSE IF cfgval = "" THEN st
    ELSE IF cfgval = "tag" THEN TagWalk(st, ref, now, oidbuf)
    ELSE IF ref.tip = NullTarget THEN st
    ELSE add_release_tip(st, ref.name, ref.tip, now)

\* branch_callback for one branch; oidbuf is what git_oid_cpy leaves in it
branch_callback(st, ref, now, oidbuf) ==
    LET cfgval == ConfigTrack(ref.name) IN
    IF ~BranchNameOk(ref.name) THEN st
    ELSE IF cfgval = "" THEN st
    ELSE IF cfgval = "tip"
    THEN IF ref.tip = NullTarget THEN st
         ELSE add_release_tip(st, ref.name, ref.tip, now)
    ELSE IF cfgval = "tag" THEN TagWalk(st, ref, now, oidbuf)
    ELSE st

\* what can fail while main sets the run up: git_repository_open,
\* git_repository_config, sqlite3_open_v2 and the CREATE TABLE statement
SetupFaults == {"ok", "repository", "config", "database", "schema"}

\* main that goes on without the configuration
SetupPcConfigIgnored(fault) ==
    IF fault \in {"ok", "config"} THEN "scan" ELSE "exited"

\* where main is after its setup: each failure is followed by
\* exit(EXIT_FAILURE), also inside sql_exec
SetupPc(fault) ==
    IF fault = "ok" THEN "scan" ELSE "exited"

\* a schema statement that makes the table anew
CreateTableAnew(tbl, exists) == {}

\* CREATE TABLE IF NOT EXISTS "releases" (...): the rows of the table after it
CreateTableIfNotExists(tbl, exists) ==
    IF exists THEN tbl ELSE {}

\* main up to the branch loop: the repository, the configuration and the
\* database are opened, CREATE TABLE IF NOT EXISTS leaves the rows alone
StartRun ==
    /\ pc \in {"idle", "done"}
    /\ runs < MaxRuns
    /\ \E fault \in SetupFaults :
          /\ setup' = fault
          /\ pc' = SetupPc(fault)
          /\ IF SetupPc(fault) = "scan"
             THEN /\ db' = CreateTableIfNotExists(db, schema)
                  /\ schema' = TRUE
             ELSE UNCHANGED <<db, schema>>
    /\ nextBranch' = 1
    /\ runs' = runs + 1
    /\ dbAtStart' = db
    /\ log' = <<>>
    /\ UNCHANGED <<clock, tagVars, lastCall, txnVars, repoVars, timeVars, dispVars>>

\* one turn of the branch loop of main: branch_callback on the next branch
BranchCallback ==
    /\ pc = "scan"
    /\ nextBranch <= Len(branches)
    /\ \E oidbuf \in NullCopy(branches[nextBranch]) :
       \E st \in {branch_callback([db |-> db, log |-> log, exited |-> FALSE],
                                    branches[nextBranch], clock, oidbuf)} :
           /\ db' = st.db
           /\ log' = st.log
           /\ pc' = IF st.exited THEN "exited" ELSE "scan"
    /\ nextBranch' = nextBranch + 1
    /\ UNCHANGED <<clock, runs, dbAtStart, notRun>>

\* git_branch_next reports the end: main frees everything and returns 0
EndRun ==
    /\ pc = "scan"
    /\ nextBranch > Len(branches)
    /\ pc' = "done"
    /\ UNCHANGED <<db, clock, nextBranch, runs, dbAtStart, log, notRun>>

\* a second passes between two runs
TickBetweenRuns ==
    /\ pc = "done"
    /\ runs < MaxRuns
    /\ clock < Epoch0 + MaxTicks
    /\ clock' = clock + 1
    /\ UNCHANGED <<db, runVars, notRun>>

\* between two runs the builder builds every NEW release
BuildAll ==
    /\ pc = "done"
    /\ runs < MaxRuns
    /\ \E row \in db : row.state = "NEW"
    /\ db' = {IF row.state = "NEW" THEN [row EXCEPT !.state = "SUCCESS"] ELSE row :
                  row \in db}
    /\ UNCHANGED <<clock, runVars, notRun>>

RunNext == StartRun \/ BranchCallback \/ EndRun \/ TickBetweenRuns \/ BuildAll

SpecRun == RunInit /\ [][RunNext]_vars

\* C3 (as claimed): a second run on the unchanged repository leaves the table
\* exactly as the run found it: nothing added, deleted or re-inserted, no
\* state and no added timestamp changed (stated here for the repositories
\* whose branches all point at a commit).
C3_SecondRunIdempotent ==
    (pc = "done" /\ runs >= 2 /\ \A i \in 1..Len(branches) : branches[i].tip \in Commits)
        => db = dbAtStart

\* the branch names the specification accepts: letters, digits, '-' and '_'
\* only, and at most 32 characters
ValidBranchName(name) ==
    /\ Len(name) <= 32
    /\ \A i \in 1..Len(name) :
          name[i] \in Digit \cup Lower \cup Upper \cup {"-", "_"}

\* C8 (as claimed): no row is ever written for a branch whose name has a
\* character other than a letter, a digit, '-' or '_', or is longer than 32
\* characters.
C8_OnlyValidBranchesTracked ==
    \A row \in db : ValidBranchName(row.branch)

\* the add_release calls logged for a branch
CallsFor(branch_name) ==
    {i \in 1..Len(log) : log[i].branch = branch_name /\ log[i].did # "LOOKUP_FAILED"}

\* C9 (as claimed): after a run on an empty table, for every valid branch
\* with track = tag, every commit reachable from its tip and every tag on that
\* commit that the matcher accepts, add_release was called with the tag's
\* version, the branch and the commit.
C9_TagTrackingComplete ==
    (pc = "done" /\ runs = 1) =>
        \A i \in 1..Len(branches), j \in 1..Len(tags) :
            LET b == branches[i]
                t == tags[j]
                m == tag_callback_match(t.name)
            IN  (/\ ValidBranchName(b.name)
                 /\ config[b.name] = "tag"
                 /\ t.target \in Ancestors(b.tip)
                 /\ t.target \notin unreadable
                 /\ m.ok)
                => \E k \in CallsFor(b.name) :
                       /\ log[k].version = m.version
                       /\ log[k].commit = git_oid_fmt(CommitOid(t.target))

\* the value of a decimal digit and of a hexadecimal digit
DigitVal(ch) == CHOOSE d \in 0..9 : DigitSeq[d + 1] = ch

HexVal(ch) == CHOOSE d \in 0..15 : HexSeq[d + 1] = ch

\* the number written by the two digits of s at positions i and i + 1
Num2(s, i) == 10 * DigitVal(s[i]) + DigitVal(s[i + 1])

\* days from 1970-01-01 to the day d of month m of year y
DaysFromCivil(y, m, d) ==
    LET yy  == IF m <= 2 THEN y - 1 ELSE y
        era == yy \div 400
        yoe == yy - (era * 400)
        mp  == IF m > 2 THEN m - 3 ELSE m + 9
        doy == (((153 * mp) + 2) \div 5) + d - 1
        doe == (yoe * 365) + (yoe \div 4) - (yoe \div 100) + doy
    IN  (era * 146097) + doe - 719468

\* the second of this century that the fields YYMM.DDHH.MMSS of v name
TipInstant(v) ==
    (DaysFromCivil(2000 + Num2(v, 1), Num2(v, 3), Num2(v, 6)) * 86400)
        + (Num2(v, 8) * 3600) + (Num2(v, 11) * 60) + Num2(v, 13)

\* v is fourteen digits laid out as YYMM.DDHH.MMSS, then -git, then eight
\* hexadecimal characters
TipVersionShape(v) ==
    /\ Len(v) = 26
    /\ \A i \in {1, 2, 3, 4, 6, 7, 8, 9, 11, 12, 13, 14} : v[i] \in Digit
    /\ v[5] = "." /\ v[10] = "."
    /\ SubSeq(v, 15, 18) = <<"-", "g", "i", "t">>
    /\ \A i \in 19..26 : \E d \in 1..16 : HexSeq[d] = v[i]

\* str is the id oid written as 40 hexadecimal characters, two per byte
IsHexOf(str, oid) ==
    /\ Len(str) = 2 * Len(oid)
    /\ Len(str) = 40
    /\ \A i \in 1..Len(oid) :
          /\ \E d \in 1..16 : HexSeq[d] = str[(2 * i) - 1]
          /\ \E d \in 1..16 : HexSeq[d] = str[2 * i]
          /\ (16 * HexVal(str[(2 * i) - 1])) + HexVal(str[2 * i]) = oid[i]

\* the branches of the running pass that branch_callback has been through
Scanned == IF pc = "idle" THEN {} ELSE 1..(nextBranch - 1)

C14_SharedTagBothBranches ==
    pc = "done" =>
        \A i \in 1..Len(branches), j \in 1..Len(branches), k \in 1..Len(tags) :
            LET b1 == branches[i]
                b2 == branches[j]
                t  == tags[k]
                m  == tag_callback_match(t.name)
            IN  (/\ i # j
                 /\ ValidBranchName(b1.name) /\ ValidBranchName(b2.name)
                 /\ config[b1.name] = "tag" /\ config[b2.name] = "tag"
                 /\ t.target \in Ancestors(b1.tip) \cap Ancestors(b2.tip)
                 /\ t.target \notin unreadable
                 /\ m.ok)
                => \A b \in {b1, b2} :
                       \E row \in db :
                           /\ row.release = m.version
                           /\ row.branch = b.name
                           /\ row.commit = git_oid_fmt(CommitOid(t.target))

\* C15: the turn of the branch loop for a branch whose track setting is
\* unset or is a string other than tip and tag calls add_release not once and
\* leaves the table as it is, and the loop goes on to the next branch.
C15_UntrackedBranchSkipped ==
    [][(/\ pc = "scan"
        /\ nextBranch <= Len(branches)
        /\ config[branches[nextBranch].name] \notin {"tip", "tag"})
       => (/\ db' = db
           /\ log' = log
           /\ pc' = "scan"
           /\ nextBranch' = nextBranch + 1)]_vars

\* C15 witness: the second run has been through a well-named branch set to
\* the unsupported mode weekly, with rows of the first run in the table.
C15_Witness ==
    /\ pc = "scan"
    /\ nextBranch = 2
    /\ runs = 2
    /\ branches[1].name = Live
    /\ config[Live] = "weekly"
    /\ db # {}
    /\ db = dbAtStart

\* C20 (as claimed): whatever is wrong with a branch, the turn of the branch
\* loop for it does not end the run: the loop goes on to the next branch.
C20_BranchFailureIsolated ==
    [][(pc = "scan" /\ nextBranch <= Len(branches))
       => (pc' = "scan" /\ nextBranch' = nextBranch + 1)]_vars

\* the position of commit c in the walk from tip
WalkIndex(tip, c) == CHOOSE i \in 1..Len(RevWalk(tip)) : RevWalk(tip)[i] = c

\* C22 (as claimed): after a run, for every valid branch with track = tag
\* and every reachable commit that cannot be looked up, each accepted tag on
\* that commit has been examined and dropped on its own (its lookup was tried
\* and reported, no row written), and every readable commit later in the
\* walk that carries an accepted tag has had add_release called for it.
C22_LookupFailureDropsOne ==
    (pc = "done" /\ runs = 1) =>
        \A i \in 1..Len(branches), j \in 1..Len(tags) :
            LET b == branches[i]
                t == tags[j]
                m == tag_callback_match(t.name)
            IN  (/\ ValidBranchName(b.name)
                 /\ config[b.name] = "tag"
                 /\ b.tip \in Commits
                 /\ t.target \in Ancestors(b.tip)
                 /\ m.ok
                 /\ \E u \in unreadable \cap Ancestors(b.tip) :
                       WalkIndex(b.tip, u) <= WalkIndex(b.tip, t.target))
                => IF t.target \in unreadable
                   THEN \E k \in 1..Len(log) :
                            /\ log[k].branch = b.name
                            /\ log[k].version = m.version
                            /\ log[k].did = "LOOKUP_FAILED"
                   ELSE \E k \in CallsFor(b.name) :
                            log[k].commit = git_oid_fmt(CommitOid(t.target))

\* C23: the setup of a run, schema statement included, leaves every row of
\* the table as it is: when the branch loop begins the table is the one the
\* earlier runs left.
C23_SchemaIdempotent ==
    [][(pc # "scan" /\ pc' = "scan") => db' = db]_vars

\* C23 witness: the branch loop of a second run begins on a table that
\* exists and holds the rows of the first run.
C23_Witness ==
    /\ pc = "scan"
    /\ nextBranch = 1
    /\ runs = 2
    /\ schema
    /\ Cardinality(db) >= 2
    /\ db = dbAtStart

\* C24: a run whose setup failed (repository, configuration, database or
\* schema statement) has exited with a failure status, has been through no
\* branch, has called add_release not once and has left the table alone.
C24_FatalSetupErrors ==
    setup # "ok" =>
        /\ pc = "exited"
        /\ Scanned = {}
        /\ log = <<>>
        /\ db = dbAtStart

\* C24 witness: the configuration could not be opened in a second run, with
\* rows of the first run in the table.
C24_Witness ==
    /\ setup = "config"
    /\ runs = 2
    /\ pc = "exited"
    /\ db # {}

\* the commits reachable from the target of a branch; a branch without a
\* direct target reaches none
ReachableFrom(tip) == IF tip \in Commits THEN Ancestors(tip) ELSE {}

\* the row names commit c and its version is what the matcher of
\* tag_callback makes of a tag that points at exactly c
RowOfTagOn(row, c) ==
    /\ row.commit = git_oid_fmt(CommitOid(c))
    /\ \E j \in 1..Len(tags) :
          /\ tags[j].target = c
          /\ tag_callback_match(tags[j].name).ok
          /\ tag_callback_match(tags[j].name).version = row.release

C27_CollidingVersions ==
    pc = "done" =>
        \A i \in 1..Len(branches), j \in 1..Len(tags), k \in 1..Len(tags) :
            LET b  == branches[i]
                t1 == tags[j]
                t2 == tags[k]
                m1 == tag_callback_match(t1.name)
                m2 == tag_callback_match(t2.name)
            IN  (/\ BranchNameOk(b.name)
                 /\ ConfigTrack(b.name) = "tag"
                 /\ t1.target \in ReachableFrom(b.tip)
                 /\ t2.target \in ReachableFrom(b.tip)
                 /\ {t1.target, t2.target} \cap unreadable = {}
                 /\ m1.ok /\ m2.ok /\ m1.version = m2.version
                 /\ WalkIndex(b.tip, t1.target) < WalkIndex(b.tip, t2.target))
                => /\ Cardinality(RowsOf(db, m1.version, b.name)) = 1
                   /\ \A row \in RowsOf(db, m1.version, b.name) :
                          row.commit = git_oid_fmt(CommitOid(t2.target))
                   /\ \E k1, k2 \in CallsFor(b.name) :
                          /\ k1 < k2
                          /\ log[k1].version = m1.version
                          /\ log[k1].commit = git_oid_fmt(CommitOid(t1.target))
                          /\ log[k1].did = "COMMIT"
                          /\ log[k2].version = m1.version
                          /\ log[k2].commit = git_oid_fmt(CommitOid(t2.target))
                          /\ log[k2].did = "COMMIT"

-----------------------------------------------------------------------------
(* SpecChange: runs of the utility on a repository from which tags and     *)
(* branches are deleted between the runs                                   *)

\* how many tags and branches are deleted at most
MaxDeletions == 2

\* s without its i-th element
Without(s, i) == SubSeq(s, 1, i - 1) \o SubSeq(s, i + 1, Len(s))

ChangeInit ==
    /\ \E t \in {2, 3}, m1 \in {"tag", "tip"}, m2 \in {"tip", "tag"} :
          /\ branches = <<[name |-> Live, tip |-> t], [name |-> Master, tip |-> 3]>>
          /\ config = [b \in {Live, Master} |-> IF b = Live THEN m1 ELSE m2]
    /\ \E a \in {1, 2, 3}, b \in {1, 2}, c \in {2, 3} :
          tags = <<[name |-> TagV10, target |-> a], [name |-> TagR10, target |-> b],
                   [name |-> Tag11, target |-> c], [name |-> TagJunk, target |-> 3]>>
    /\ unreadable = {}
    /\ pc = "idle"
    /\ nextBranch = 0
    /\ runs = 0
    /\ dbAtStart = {}
    /\ log = <<>>
    /\ db = {}
    /\ clock = Epoch0
    /\ lastCall = {}
    /\ TagIdle
    /\ SetupIdle
    /\ TimeIdle
    /\ DispIdle
    /\ TxnIdle

\* the tags and branches deleted so far
Deleted == (4 - Len(tags)) + (2 - Len(branches))

\* git tag -d between two runs
DeleteTag(i) ==
    /\ pc = "done"
    /\ runs < MaxRuns
    /\ Deleted < MaxDeletions
    /\ i \in 1..Len(tags)
    /\ tags' = Without(tags, i)
    /\ UNCHANGED <<branches, config, unreadable, tagVars, storeVars, txnVars,
                   runVars, timeVars, dispVars, setupVars>>

\* git branch -D between two runs
DeleteBranch(i) ==
    /\ pc = "done"
    /\ runs < MaxRuns
    /\ Deleted < MaxDeletions
    /\ i \in 1..Len(branches)
    /\ branches' = Without(branches, i)
    /\ UNCHANGED <<tags, config, unreadable, tagVars, storeVars, txnVars,
                   runVars, timeVars, dispVars, setupVars>>

ChangeNext ==
    \/ StartRun
    \/ BranchCallback
    \/ EndRun
    \/ TickBetweenRuns
    \/ BuildAll
    \/ \E i \in 1..4 : DeleteTag(i)
    \/ \E i \in 1..2 : DeleteBranch(i)

SpecChange == ChangeInit /\ [][ChangeNext]_vars

\* the (release, branch) keys of a table
Keys(tbl) == {<<row.release, row.branch>> : row \in tbl}

\* C17: no step of any sequence of runs, with tags and branches deleted in
\* between, takes a (release, branch) key out of the table.
C17_KeysNeverShrink ==
    [][Keys(db) \subseteq Keys(db')]_vars

\* C17 witness: a second run has ended on a repository from which a tag and
\* a branch were deleted after the first run, and the table still has a row
\* of the deleted branch and a row whose version no remaining tag gives.
C17_Witness ==
    /\ pc = "done"
    /\ runs = 2
    /\ Len(tags) < 4
    /\ Len(branches) < 2
    /\ \E row \in db : \A i \in 1..Len(branches) : branches[i].name # row.branch
    /\ \E row \in db :
          /\ \E i \in 1..Len(branches) : branches[i].name = row.branch
          /\ ~TipVersionShape(row.release)
          /\ \A i \in 1..Len(tags) :
                tag_callback_match(tags[i].name).version # row.release

-----------------------------------------------------------------------------
(* SpecDispatch: runs of the utility each followed by the build dispatch.  *)
(* main of track-release.c ends after the branch loop and spawn is only    *)
(* declared in utils.h; the dispatch is modelled from section 4.7 of the   *)
(* specification and recordOutcome from section 4.5.                       *)

\* exit statuses of the hook: 0, a non-zero status, and -1 for a hook that
\* could not be launched
HookStatuses == {0, 1, -1}

\* the outcome recorded for an exit status
Outcome(status) ==
    IF status = 0 THEN "SUCCESS"
    ELSE IF status = -1 THEN "FAILED(-1)"
    ELSE "FAILED(1)"

\* ReleaseStore.pendingReleases: the rows in state NEW
pendingReleases(tbl) == {row \in tbl : row.state = "NEW"}

\* recordOutcome that records nothing for a hook that failed
recordOutcome_OnlySuccess(tbl, version, branch_name, outcome) ==
    {IF row.release = version /\ row.branch = branch_name /\ row.state = "NEW"
        /\ outcome = "SUCCESS"
     THEN [row EXCEPT !.state = outcome] ELSE row : row \in tbl}

\* ReleaseStore.recordOutcome: NEW -> SUCCESS or NEW -> FAILED(code) for the
\* named release, no other transition
recordOutcome(tbl, version, branch_name, outcome) ==
    {IF row.release = version /\ row.branch = branch_name /\ row.state = "NEW"
     THEN [row EXCEPT !.state = outcome] ELSE row : row \in tbl}

DispatchInit ==
    /\ \E t \in {2, 3}, m1 \in {"tag", "tip"}, m2 \in {"tip", "tag"} :
          /\ branches = <<[name |-> Live, tip |-> t], [name |-> Master, tip |-> 3]>>
          /\ config = [b \in {Live, Master} |-> IF b = Live THEN m1 ELSE m2]
    /\ \E a \in {1, 2, 3}, b \in {1, 2}, c \in {2, 3} :
          tags = <<[name |-> TagV10, target |-> a], [name |-> TagR10, target |-> b],
                   [name |-> Tag11, target |-> c], [name |-> TagJunk, target |-> 3]>>
    /\ unreadable = {}
    /\ hook \in BOOLEAN
    /\ queue = {}
    /\ newAtStart = {}
    /\ hookCalls = <<>>
    /\ pc = "idle"
    /\ nextBranch = 0
    /\ runs = 0
    /\ dbAtStart = {}
    /\ log = <<>>
    /\ db = {}
    /\ clock = Epoch0
    /\ lastCall = {}
    /\ TagIdle
    /\ SetupIdle
    /\ TimeIdle
    /\ TxnIdle

\* a run starts when the run before it has returned from its dispatch
StartDispatchedRun ==
    /\ pc = "idle"
    /\ StartRun

\* dispatchPending(hookPath) begins: without a hook it is a no-op, with one
\* it takes the pending releases
DispatchStart ==
    /\ pc = "done"
    /\ newAtStart' = Keys(pendingReleases(db))
    /\ hookCalls' = <<>>
    /\ queue' = IF hook THEN pendingReleases(db) ELSE {}
    /\ pc' = "dispatch"
    /\ UNCHANGED <<db, hook, nextBranch, runs, dbAtStart, log, notDisp>>

\* the hook runs for one pending release, commit, branch and version as its
\* arguments, and its outcome is recorded whatever it is
DispatchOne ==
    /\ pc = "dispatch"
    /\ \E r \in queue, status \in HookStatuses :
          LET k == <<r.release, r.branch>> IN
          /\ db' = recordOutcome(db, r.release, r.branch, Outcome(status))
          /\ hookCalls' = IF k \in DOMAIN hookCalls
                          THEN [hookCalls EXCEPT ![k] = Append(@, status)]
                          ELSE (k :> <<status>>) @@ hookCalls
          /\ queue' = queue \ {r}
    /\ UNCHANGED <<hook, newAtStart, runVars, notDisp>>

\* dispatchPending returns
DispatchEnd ==
    /\ pc = "dispatch"
    /\ queue = {}
    /\ pc' = "idle"
    /\ UNCHANGED <<db, dispVars, nextBranch, runs, dbAtStart, log, notDisp>>

DispatchNext ==
    \/ StartDispatchedRun
    \/ BranchCallback
    \/ EndRun
    \/ DispatchStart
    \/ DispatchOne
    \/ DispatchEnd

SpecDispatch == DispatchInit /\ [][DispatchNext]_vars

\* C18: when the dispatch of a run has returned and the hook is present, every
\* release that was NEW when the dispatch began has had the hook run once
\* and is SUCCESS if the hook exited with 0 and FAILED(code) otherwise; none
\* is still NEW, whatever the outcome of the releases dispatched before it.
C18_DispatchCompleteness ==
    (pc = "idle" /\ runs >= 1 /\ hook) =>
        \A k \in newAtStart :
            /\ k \in DOMAIN hookCalls
            /\ \A row \in RowsOf(db, k[1], k[2]) :
                  /\ row.state # "NEW"
                  /\ row.state = Outcome(hookCalls[k][1])
            /\ RowsOf(db, k[1], k[2]) # {}

\* C18 witness: a dispatch of three or more releases has returned, a hook run
\* failed, another could not be launched and another succeeded.
C18_Witness ==
    /\ pc = "idle"
    /\ runs >= 1
    /\ hook
    /\ Cardinality(newAtStart) >= 3
    /\ \E row \in db : row.state = "FAILED(1)"
    /\ \E row \in db : row.state = "FAILED(-1)"
    /\ \E row \in db : row.state = "SUCCESS"

\* C19 (as claimed): in every step the row of a (release, branch) that is
\* SUCCESS or FAILED(code) keeps that state, a NEW row stays NEW or becomes
\* SUCCESS or FAILED(code), and the hook is run at most once per release in
\* one dispatch.
C19_StateMachine ==
    [][/\ \A row \in db :
             \A next \in RowsOf(db', row.release, row.branch) :
                 IF row.state = "NEW"
                 THEN next.state \in {"NEW"} \cup {Outcome(st) : st \in HookStatuses}
                 ELSE next.state = row.state
       /\ \A k \in DOMAIN hookCalls' : Len(hookCalls'[k]) <= 1]_vars

-----------------------------------------------------------------------------
(* SpecTime: the two time conversions applied to two committer times of    *)
(* one instant                                                             *)

\* instants around the end of a day, of a month and of a year
TimeEpochs == {951782400, 1704067199, 1709251199, 1709634030, 1709720430,
               1735689600}

\* offsets from UTC in minutes, on both sides of it
TimeOffsets == {-720, -330, -60, 0, 60, 345, 840}

TimeInit ==
    /\ \E t \in TimeEpochs, oa \in TimeOffsets, ob \in TimeOffsets :
          /\ sigA = [time |-> t, offset |-> oa]
          /\ sigB = [time |-> t, offset |-> ob]
    /\ tmOut = {}
    /\ TagIdle
    /\ SetupIdle
    /\ StoreIdle
    /\ TxnIdle
    /\ RunIdle
    /\ DispIdle

\* what add_release_tip and tag_callback make of a committer time: the tm of
\* git_gmtime, the when column add_release formats from it and the time
\* fields of a tip version
Converted(fn, r) ==
    [fn |-> fn, tm |-> r.tm, when |-> FormatDateTime(r.tm),
     fields |-> SubSeq(FormatTipVersion(r.tm), 1, 14)]

\* git_gmtime(&(sig->when), &tm, &hours, &minutes, &sign) in track-release.c
GitGmtime ==
    /\ tmOut = {}
    /\ tmOut' = {[a |-> Converted("git_gmtime", git_gmtime(sigA)),
                  b |-> Converted("git_gmtime", git_gmtime(sigB))]}
    /\ UNCHANGED <<sigA, sigB, notTime>>

\* gmgittime(&(relsig->when), &tm, &hours, &minutes, &sign) in log-debian.c
GmGitTime ==
    /\ tmOut = {}
    /\ tmOut' = {[a |-> Converted("gmgittime", gmgittime(sigA)),
                  b |-> Converted("gmgittime", gmgittime(sigB))]}
    /\ UNCHANGED <<sigA, sigB, notTime>>

TimeNext == GitGmtime \/ GmGitTime

SpecTime == TimeInit /\ [][TimeNext]_vars

\* the second that a when value YYYY-MM-DD HH:MM:SS names, read as UTC
WhenInstant(w) ==
    (DaysFromCivil((100 * Num2(w, 1)) + Num2(w, 3), Num2(w, 6), Num2(w, 9)) * 86400)
        + (Num2(w, 12) * 3600) + (Num2(w, 15) * 60) + Num2(w, 18)

\* C11 (as claimed): the when value and the time fields of a tip version are
\* the commit's instant in UTC, so two committer times of one instant with
\* different offsets give the same when and the same time fields.
C11_UtcNormalized ==
    \A r \in tmOut :
        /\ WhenInstant(r.a.when) = sigA.time
        /\ WhenInstant(r.b.when) = sigB.time
        /\ r.a.when = r.b.when
        /\ r.a.fields = r.b.fields

-----------------------------------------------------------------------------
(* SpecTag: both matchers applied to every tag name of a bounded set       *)

MaxBodyLen == 4

BodyAlphabet == {"2", ".", "a", "~", "/"}

\* all strings over the alphabet of length at most n
RECURSIVE StringsUpTo(_, _)
StringsUpTo(alphabet, n) ==
    IF n = 0 THEN {<<>>}
    ELSE LET shorter == StringsUpTo(alphabet, n - 1) IN
         shorter \cup {Append(s, c) : s \in shorter, c \in alphabet}

\* tails that bring a three-character remainder to 31, 32 and 33 characters
Tails == {<<>>, Repeat("0", 28), Repeat("0", 29), Repeat("0", 30)}

TagNamespaces == {<<>>, RefsTags}

TagPrefixes == {<<>>, <<"r">>, <<"v">>, <<"R">>, <<"V">>, DebianSlash,
                ReleaseSlash, <<"x">>}

\* tags named like the versions add_release_tip builds for the commits
TipNamedBodies == {TipVersion(c) : c \in Commits}

TagBodies ==
    {b \o z : b \in StringsUpTo(BodyAlphabet, MaxBodyLen), z \in Tails}
        \cup TipNamedBodies

TagName == tagNs \o tagPrefix \o tagBody

TagInit ==
    /\ tagNs \in TagNamespaces
    /\ tagPrefix \in TagPrefixes
    /\ tagBody \in TagBodies
    /\ utilOut = {}
    /\ cbOut = {}
    /\ StoreIdle
    /\ TxnIdle
    /\ RunIdle
    /\ TimeIdle
    /\ DispIdle
    /\ SetupIdle

CheckReleaseTag ==
    /\ utilOut = {}
    /\ utilOut' = {check_release_tag(TagName)}
    /\ UNCHANGED <<tagNs, tagPrefix, tagBody, cbOut, notTag>>

TagCallbackMatch ==
    /\ cbOut = {}
    /\ cbOut' = {tag_callback_match(TagName)}
    /\ UNCHANGED <<tagNs, tagPrefix, tagBody, utilOut, notTag>>

TagNext == CheckReleaseTag \/ TagCallbackMatch

SpecTag == TagInit /\ [][TagNext]_vars

\* The grammar of the specification, stated on a whole string:
\* digit+ '.' digit [A-Za-z0-9-_.~@]*, at most 32 characters
VersionGrammar(rest) ==
    /\ Len(rest) <= 32
    /\ \E k \in 1..Len(rest) :
          /\ \A i \in 1..k : rest[i] \in Digit
          /\ At(rest, k + 1) = "."
          /\ At(rest, k + 2) \in Digit
          /\ \A i \in (k + 3)..Len(rest) :
                rest[i] \in Digit \cup Lower \cup Upper \cup {"-", "_", ".", "~", "@"}

\* C6 (as claimed): check_release_tag accepts a tag name exactly when what is
\* left after the namespace and the prefix are dropped is digit+ '.' digit rest
\* of at most 32 characters, and then returns that remainder verbatim; a
\* remainder with no digit before the first '.' is rejected.
C6_TagGrammar ==
    \A r \in utilOut :
        LET rest == StripPrefix(StripNamespace(TagName)) IN
        /\ r.ok <=> VersionGrammar(rest)
        /\ r.ok => r.version = rest

\* the five documented forms: nothing, r, v, debian/ or release/ before
\* <major>.<minor>...
DocumentedPrefixes == {<<>>, <<"r">>, <<"v">>, DebianSlash, ReleaseSlash}

\* C7 (as claimed): a tag name of each of the five documented forms, with an
\* all-numeric major and a minor that begins with a digit, is accepted and the
\* version is the text after the prefix.
C7_RecognizedPrefixes ==
    \A r \in utilOut :
        (tagPrefix \in DocumentedPrefixes /\ VersionGrammar(tagBody))
            => r = Match(tagBody)

\* C12 (as claimed): no version that a tag matcher emits has the form of a
\* tip version, fourteen digits as YYMM.DDHH.MMSS, then -git, then eight
\* hexadecimal characters; in particular none is the tip version of a commit.
C12_TipTagDisjoint ==
    \A r \in utilOut \cup cbOut :
        r.ok => /\ ~TipVersionShape(r.version)
                /\ r.version \notin {TipVersion(c) : c \in Commits}

\* C21 (as claimed): for every tag name the matcher inside tag_callback and
\* check_release_tag decide alike: both reject it or both accept it with the
\* same version, and neither accepts a remainder longer than 32 characters.
C21_OneGrammar ==
    /\ \A u \in utilOut, c \in cbOut : u = c
    /\ \A r \in utilOut \cup cbOut : r.ok => Len(r.version) <= 32

=============================================================================
